---- MODULE Spec2Model ----
(***************************************************************************)
(* Flow Interaction Controller of the DevopsFlow web client               *)
(* (src/src/web/static/js/app.js): the root Vue component's data, its     *)
(* methods and the timers and requests they leave outstanding on the      *)
(* event loop.  Every handler runs to completion; an await is the point   *)
(* where one action ends and the continuation becomes a later action.     *)
(***************************************************************************)
EXTENDS Integers, Sequences, FiniteSets, TLC

\* ------------------------------------------------------------------ bounds
\* normal status polls (checkStatus) outstanding at once
MaxPolls == 2
\* cancellations (killProcess calls not yet confirmed) tracked at once
MaxDeathTimers == 1
\* dedicated cancellation status requests outstanding at once
MaxDeathReqs == 1
\* the same when the status requests take longer than the 2000 ms interval
MaxSlowDeathReqs == 2
\* submitFeedback invocations that have not run to their end
MaxResume == 2
\* start requests outstanding at once
MaxStart == 1
\* the largest value Date.now() returns
MaxClock == 3
\* conversation objects created in one page load
MaxObjects == 3
\* entries of one conversation's messages array
MaxMessages == 2

\* ------------------------------------------------------------ step names
\* A step name is a string; it is kept as its sequence of characters so that
\* String.prototype.includes is computed, not assumed.
S_initial_research ==
  <<"i","n","i","t","i","a","l","_","r","e","s","e","a","r","c","h">>
S_per_resource_research ==
  <<"p","e","r","_","r","e","s","o","u","r","c","e","_","r","e","s","e","a","r","c","h">>
S_project_structure_review ==
  <<"p","r","o","j","e","c","t","_","s","t","r","u","c","t","u","r","e","_","r","e","v","i","e","w">>
S_image_retrieval_review ==
  <<"i","m","a","g","e","_","r","e","t","r","i","e","v","a","l","_","r","e","v","i","e","w">>
S_resource_ == <<"r","e","s","o","u","r","c","e","_">>
S_research_review ==
  <<"_","r","e","s","e","a","r","c","h","_","r","e","v","i","e","w">>
S_manual_fix_step ==
  <<"m","a","n","u","a","l","_","f","i","x","_","s","t","e","p">>
UnknownStep == <<"U","n","k","n","o","w","n"," ","s","t","e","p">>
EmptyString == <<>>

\* s.includes(p)
Includes(s, p) ==
  \E i \in 0..(Len(s) - Len(p)) : SubSeq(s, i + 1, i + Len(p)) = p

shouldShowApproveReject(stepName) ==
  \/ Includes(stepName, S_initial_research)
  \/ Includes(stepName, S_per_resource_research)
  \/ Includes(stepName, S_project_structure_review)
  \/ Includes(stepName, S_image_retrieval_review)
  \/ (Includes(stepName, S_resource_) /\ Includes(stepName, S_research_review))

\* statusData.step_name || 'Unknown step'
StepOrUnknown(step) == IF step = EmptyString THEN UnknownStep ELSE step

\* ------------------------------------------------------ gateway responses
\* step_name values the backend reports (EmptyString: null/absent)
StepNames == {EmptyString, S_initial_research}

\* event lists the backend reports
EventLists == { << >>, << "e1" >> }

\* record lists the backend reports
RecordLists == { << >>, << "r1" >>, << "r1", "r2" >> }

\* blackboard.events of a getBlackboard response: absent, the object
\* { events: [...] } ("wrapped") or the array itself
EventsFields ==
  { [shape |-> "absent", list |-> << >>] }
    \cup [shape : {"wrapped", "array"}, list : EventLists]

\* blackboard.records of a getBlackboard response: absent or an array
RecordsFields ==
  { [present |-> FALSE, list |-> << >>] } \cup [present : {TRUE}, list : RecordLists]

\* response.data.blackboard: undefined, or an object with the two fields
NoBlackboard ==
  [present |-> FALSE, events |-> [shape |-> "absent", list |-> << >>],
   records |-> [present |-> FALSE, list |-> << >>]]

Blackboards ==
  { NoBlackboard } \cup [present : {TRUE}, events : EventsFields, records : RecordsFields]

\* What checkStatus reads of a successful getStatus + getInteractionStatus
\* pair.  step_name is read only when is_waiting_for_input is set.
\* inter: interactionData.interaction && interactionData.blackboard
\* events: interactionData.blackboard.events.events when it is an array,
\* else the empty list; read only when inter is set.
StatusResponses ==
  { r \in [running : BOOLEAN, waiting : BOOLEAN, step : StepNames,
           inter : BOOLEAN, events : EventLists] :
      /\ ~r.waiting => r.step = EmptyString
      /\ ~r.inter => r.events = << >> }

\* texts the user can have typed into the feedback field
FeedbackTexts == {"", "text"}

DeathSlots == 1..MaxDeathTimers

\* ------------------------------------------------------------ ChatPopup data
\* conversation objects; a slot not yet used holds NoObject
Objects == 1..MaxObjects
NoObject == [id |-> 0, messages |-> << >>]

\* kinds of entries of a conversation's messages array
MessageKinds == {"user", "answer", "error"}

\* the first value Date.now() returns in this page load; ids kept from an
\* earlier page load are smaller
FirstNow == 2

\* localStorage item 'conversations' at page load: absent, text that does
\* not parse, the text "null", or the collection an earlier page load saved
NoItem == [kind |-> "absent", map |-> << >>]

StoredItems ==
  { NoItem,
    [kind |-> "corrupt", map |-> << >>],
    [kind |-> "null", map |-> << >>],
    [kind |-> "map", map |-> << >>],
    [kind |-> "map", map |-> << [id |-> 1, messages |-> << >>] >>],
    [kind |-> "map", map |-> << [id |-> 1, messages |-> << "user", "answer" >>] >>] }

VARIABLES
  mounted,                      \* created() has run
  isLoading,
  isProcessRunning,
  isWaitingForInput,
  userInputRequiredByBackend,
  waitingStepName,
  userFeedback,
  blackboardEvents,
  blackboardRecords,
  pageBlackboard,               \* BlackboardPage: this.blackboard
  isRefreshing,                 \* BlackboardPage: a getBlackboard call is outstanding
  chatMounted,                  \* ChatPopup: onMounted has run
  showChat,
  chatIsLoading,                \* ChatPopup: isLoading
  conversations,                \* ChatPopup: the objects of conversations.value, in key order
  conversationsNull,            \* ChatPopup: conversations.value is null
  currentConversationId,        \* ChatPopup: 0 is null
  heap,                         \* conversation object -> its id and messages
  nextOid,                      \* the next conversation object to be created
  chatReq,                      \* the objects the outstanding chatWithCrew calls hold, in call order
  stored,                       \* localStorage item 'conversations'
  clock,                        \* the last value Date.now() returned
  statusPoller,                 \* TRUE: holds an interval handle; FALSE: null
  justResumed,
  showApproveReject,
  pollTimers,                   \* live setInterval(checkStatusBound, 3000) timers
  polls,                        \* outstanding checkStatus calls
  startReq,                     \* outstanding $api.startDevopsFlow requests
  killReq,                      \* outstanding $api.killProcess requests
  loadingShown,                 \* $q.loading overlay is shown
  deathLive,                    \* slot -> its deathPoller interval is live
  deathReq,                     \* slot -> outstanding getStatus calls of that poller
  resumeReq,                    \* submitFeedback calls awaiting $api.resumeFlow
  resumeSleep,                  \* ... awaiting the 1000 ms delay
  resumeTimer,                  \* pending 2000 ms timers that clear justResumed
  closedBy,                     \* history: what hid the dialog while the backend was still
                                \* recorded as waiting: "user", "resume", else "none"
  last                          \* history: the handler that ran last and its input

\* what only the blackboard page and its update-drawers event write
pageVars == << blackboardRecords, pageBlackboard, isRefreshing >>

\* the state of the ChatPopup component
chatVars ==
  << chatMounted, showChat, chatIsLoading, conversations, conversationsNull,
     currentConversationId, heap, nextOid, chatReq, stored, clock >>

vars ==
  << mounted, isLoading, isProcessRunning, isWaitingForInput,
     userInputRequiredByBackend, waitingStepName, userFeedback,
     blackboardEvents, statusPoller, justResumed, showApproveReject, pollTimers, polls, startReq, killReq,
     loadingShown, deathLive, deathReq, resumeReq, resumeSleep, resumeTimer,
     closedBy, last, pageVars, chatVars >>

NoArg == [none |-> TRUE]
Ev(op, arg) == [op |-> op, arg |-> arg]

RECURSIVE SumOver(_, _)
SumOver(f, S) ==
  IF S = {} THEN 0
  ELSE LET x == CHOOSE y \in S : TRUE IN f[x] + SumOver(f, S \ {x})

PollsInFlight == polls
DeathReqsInFlight == SumOver(deathReq, DeathSlots)
ResumesActive == resumeReq + resumeSleep + resumeTimer

\* the components' data() and refs, with item in localStorage
DataWith(item) ==
  /\ mounted = FALSE
  /\ isLoading = FALSE
  /\ isProcessRunning = FALSE
  /\ isWaitingForInput = FALSE
  /\ userInputRequiredByBackend = FALSE
  /\ waitingStepName = EmptyString
  /\ userFeedback = ""
  /\ blackboardEvents = << >>
  /\ blackboardRecords = << >>
  /\ pageBlackboard = NoBlackboard
  /\ isRefreshing = FALSE
  /\ statusPoller = FALSE
  /\ justResumed = FALSE
  /\ showApproveReject = FALSE
  /\ pollTimers = 0
  /\ polls = 0
  /\ startReq = 0
  /\ killReq = 0
  /\ loadingShown = FALSE
  /\ deathLive = [s \in DeathSlots |-> FALSE]
  /\ deathReq = [s \in DeathSlots |-> 0]
  /\ resumeReq = 0
  /\ resumeSleep = 0
  /\ resumeTimer = 0
  /\ closedBy = "none"
  /\ last = Ev("data", NoArg)
  /\ chatMounted = FALSE
  /\ showChat = FALSE
  /\ chatIsLoading = FALSE
  /\ conversations = << >>
  /\ conversationsNull = FALSE
  /\ currentConversationId = 0
  /\ heap = [o \in Objects |-> NoObject]
  /\ nextOid = 1
  /\ chatReq = << >>
  /\ stored = item
  /\ clock = FirstNow

\* a page load with nothing kept in localStorage
Init == DataWith(NoItem)

\* ------------------------------------------------------- polling scheduler
\* the handle dropped without clearInterval
TimersAfterStop_leak == pollTimers

\* stopPolling(): clearInterval(this.statusPoller) when the handle is set
TimersAfterStop == IF statusPoller THEN pollTimers - 1 ELSE pollTimers

\* startPolling() without its stopPolling(): an earlier interval is left live
TimersAfterStart_noStop == pollTimers + 1

\* the live interval timers after startPolling(): stopPolling() first, then
\* one new setInterval
TimersAfterStart == TimersAfterStop + 1

\* n more checkStatus calls issued now (their requests are outstanding)
IssuePolls(n) == polls + n

\* created(): startPolling() and then a direct this.checkStatus(); the
\* watchdog interval is registered (it is the Watchdog action).
created ==
  /\ ~mounted
  /\ mounted' = TRUE
  /\ statusPoller' = TRUE
  /\ pollTimers' = TimersAfterStart
  /\ isLoading' = TRUE
  /\ polls' = IssuePolls(2)
  /\ UNCHANGED << closedBy, blackboardEvents, pageVars, chatVars >>
  /\ last' = Ev("other", NoArg)
  /\ UNCHANGED << isProcessRunning, isWaitingForInput, userInputRequiredByBackend,
                  waitingStepName, userFeedback, justResumed, showApproveReject,
                  startReq, killReq, loadingShown, deathLive, deathReq,
                  resumeReq, resumeSleep, resumeTimer >>

\* The 3000 ms interval fires: checkStatusBound() issues the two requests.
\* Nothing in the callback looks at an earlier call still being outstanding.
TickGuard == pollTimers > 0

Tick ==
  /\ mounted
  /\ TickGuard
  /\ PollsInFlight < MaxPolls
  /\ polls' = IssuePolls(1)
  /\ UNCHANGED << closedBy, blackboardEvents, pageVars, chatVars >>
  /\ last' = Ev("timer", NoArg)
  /\ UNCHANGED << mounted, isLoading, isProcessRunning, isWaitingForInput,
                  userInputRequiredByBackend, waitingStepName, userFeedback,
                  statusPoller, justResumed, showApproveReject, pollTimers,
                  startReq, killReq, loadingShown, deathLive, deathReq,
                  resumeReq, resumeSleep, resumeTimer >>

\* the test on isProcessRunning inverted
WatchdogGuard_whenIdle == ~statusPoller /\ ~isProcessRunning

\* The 5000 ms safety-net interval of created()
WatchdogGuard == ~statusPoller /\ isProcessRunning

Watchdog ==
  /\ mounted
  /\ WatchdogGuard
  /\ PollsInFlight < MaxPolls
  /\ statusPoller' = TRUE
  /\ pollTimers' = TimersAfterStart
  /\ isLoading' = TRUE
  /\ polls' = IssuePolls(1)
  /\ UNCHANGED << closedBy, blackboardEvents, pageVars, chatVars >>
  /\ last' = Ev("watchdog", NoArg)
  /\ UNCHANGED << mounted, isProcessRunning, isWaitingForInput,
                  userInputRequiredByBackend, waitingStepName, userFeedback,
                  justResumed, showApproveReject, startReq, killReq,
                  loadingShown, deathLive, deathReq, resumeReq, resumeSleep,
                  resumeTimer >>

\* ------------------------------------------------------------ checkStatus
\* the comparison with the previous value lost: the new value tested twice
Finished_noPrevious(wasRunning, nowRunning) == nowRunning /\ ~nowRunning

\* if (wasRunning && !this.isProcessRunning)
Finished(wasRunning, nowRunning) == wasRunning /\ ~nowRunning

\* if (statusData.is_waiting_for_input && !this.justResumed)
\*   if (!this.userInputRequiredByBackend)
OpensCheckpoint(waiting, cooling, required) ==
  waiting /\ ~cooling /\ ~required

\* else if (!statusData.is_waiting_for_input)
\*   if (this.userInputRequiredByBackend || this.isWaitingForInput)
ClearsCheckpoint(waiting, required, open) ==
  ~waiting /\ (required \/ open)

\* checkStatus after both requests resolved with r
checkStatus(r) ==
  LET wasRunning == isProcessRunning
      fin == Finished(wasRunning, r.running)
      opn == ~fin /\ OpensCheckpoint(r.waiting, justResumed, userInputRequiredByBackend)
      clr == ~fin /\ ClearsCheckpoint(r.waiting, userInputRequiredByBackend, isWaitingForInput)
      step == StepOrUnknown(r.step)
      early == r.inter /\ r.waiting
  IN
  /\ mounted
  /\ polls > 0
  /\ polls' = polls - 1
  /\ isProcessRunning' = r.running
  /\ blackboardEvents' = IF r.inter THEN r.events ELSE blackboardEvents
  /\ UNCHANGED << pageVars, chatVars >>
  /\ waitingStepName' = IF early \/ opn THEN step ELSE waitingStepName
  /\ showApproveReject' =
       IF fin \/ clr THEN FALSE
       ELSE IF early \/ opn THEN shouldShowApproveReject(step)
       ELSE showApproveReject
  /\ isWaitingForInput' =
       IF fin \/ clr THEN FALSE ELSE IF opn THEN TRUE ELSE isWaitingForInput
  /\ userInputRequiredByBackend' =
       IF fin \/ clr THEN FALSE ELSE IF opn THEN TRUE
       ELSE userInputRequiredByBackend
  /\ statusPoller' = IF fin \/ opn THEN FALSE ELSE statusPoller
  /\ pollTimers' = IF fin \/ opn THEN TimersAfterStop ELSE pollTimers
  /\ isLoading' = IF fin THEN FALSE ELSE r.running /\ ~isWaitingForInput'
  /\ closedBy' = IF fin \/ opn \/ clr THEN "none" ELSE closedBy
  /\ last' = Ev("checkStatus",
                [running |-> r.running, waiting |-> r.waiting,
                 wasRunning |-> wasRunning])
  /\ UNCHANGED << mounted, userFeedback, justResumed, startReq, killReq,
                  loadingShown, deathLive, deathReq, resumeReq, resumeSleep,
                  resumeTimer >>

\* checkStatus when either request failed: the catch block
checkStatusFailed ==
  /\ mounted
  /\ polls > 0
  /\ polls' = polls - 1
  /\ statusPoller' = FALSE
  /\ pollTimers' = TimersAfterStop
  /\ isLoading' = FALSE
  /\ isProcessRunning' = FALSE
  /\ UNCHANGED << closedBy, blackboardEvents, pageVars, chatVars >>
  /\ last' = Ev("checkStatusFailed", [hadTimer |-> statusPoller])
  /\ UNCHANGED << mounted, isWaitingForInput, userInputRequiredByBackend,
                  waitingStepName, userFeedback, justResumed, showApproveReject,
                  startReq, killReq, loadingShown, deathLive, deathReq,
                  resumeReq, resumeSleep, resumeTimer >>

\* ----------------------------------------------------------- user interface
\* The $q.loading overlay covers the page while it is shown.
OverlayFree == mounted /\ ~loadingShown

\* The q-dialog bound to isWaitingForInput is modal: the toolbar and the page
\* behind it take no clicks while it is open.
PageFree == OverlayFree /\ ~isWaitingForInput

\* "Provide Input" button: v-if="userInputRequiredByBackend && !isWaitingForInput"
ProvideInputShown == userInputRequiredByBackend /\ ~isWaitingForInput

ProvideInput ==
  /\ OverlayFree
  /\ ProvideInputShown
  /\ isWaitingForInput' = TRUE
  /\ closedBy' = "none"
  /\ UNCHANGED << blackboardEvents, pageVars, chatVars >>
  /\ last' = Ev("provideInput", NoArg)
  /\ UNCHANGED << mounted, isLoading, isProcessRunning, userInputRequiredByBackend,
                  waitingStepName, userFeedback, statusPoller, justResumed,
                  showApproveReject, pollTimers, polls, startReq, killReq,
                  loadingShown, deathLive, deathReq, resumeReq, resumeSleep,
                  resumeTimer >>

\* <q-dialog v-model="isWaitingForInput">: a click outside or Escape hides it
DismissDialog ==
  /\ OverlayFree
  /\ isWaitingForInput
  /\ isWaitingForInput' = FALSE
  /\ closedBy' = IF userInputRequiredByBackend THEN "user" ELSE "none"
  /\ UNCHANGED << blackboardEvents, pageVars, chatVars >>
  /\ last' = Ev("other", NoArg)
  /\ UNCHANGED << mounted, isLoading, isProcessRunning, userInputRequiredByBackend,
                  waitingStepName, userFeedback, statusPoller, justResumed,
                  showApproveReject, pollTimers, polls, startReq, killReq,
                  loadingShown, deathLive, deathReq, resumeReq, resumeSleep,
                  resumeTimer >>

\* <q-input v-model="userFeedback"> inside the dialog
TypeFeedback(text) ==
  /\ OverlayFree
  /\ isWaitingForInput
  /\ text # userFeedback
  /\ userFeedback' = text
  /\ UNCHANGED << closedBy, blackboardEvents, pageVars, chatVars >>
  /\ last' = Ev("other", NoArg)
  /\ UNCHANGED << mounted, isLoading, isProcessRunning, isWaitingForInput,
                  userInputRequiredByBackend, waitingStepName, statusPoller,
                  justResumed, showApproveReject, pollTimers, polls, startReq,
                  killReq, loadingShown, deathLive, deathReq, resumeReq,
                  resumeSleep, resumeTimer >>

\* -------------------------------------------------------- startDevopsFlow
\* HomePage.isBusy: this.isLoading || this.status.is_running, where status is
\* the app's status string, so only isLoading counts.
isBusy == isLoading

\* HomePage.submitPrompt with a non-blank prompt, then startDevopsFlow up to
\* its await
startDevopsFlow ==
  /\ PageFree
  /\ ~isBusy
  /\ startReq < MaxStart
  /\ isLoading' = TRUE
  /\ startReq' = startReq + 1
  /\ blackboardEvents' = << >>
  /\ UNCHANGED << closedBy, pageVars, chatVars >>
  /\ last' = Ev("startDevopsFlow", [events |-> blackboardEvents])
  /\ UNCHANGED << mounted, isProcessRunning, isWaitingForInput,
                  userInputRequiredByBackend, waitingStepName, userFeedback,
                  statusPoller, justResumed, showApproveReject, pollTimers,
                  polls, killReq, loadingShown, deathLive, deathReq, resumeReq,
                  resumeSleep, resumeTimer >>

\* the start request resolved: this.startPolling()
startAcked ==
  /\ startReq > 0
  /\ PollsInFlight < MaxPolls
  /\ startReq' = startReq - 1
  /\ statusPoller' = TRUE
  /\ pollTimers' = TimersAfterStart
  /\ isLoading' = TRUE
  /\ polls' = IssuePolls(1)
  /\ UNCHANGED << closedBy, blackboardEvents, pageVars, chatVars >>
  /\ last' = Ev("startAcked", NoArg)
  /\ UNCHANGED << mounted, isProcessRunning, isWaitingForInput,
                  userInputRequiredByBackend, waitingStepName, userFeedback,
                  justResumed, showApproveReject, killReq, loadingShown,
                  deathLive, deathReq, resumeReq, resumeSleep, resumeTimer >>

\* the start request was rejected: the catch block
startFailed ==
  /\ startReq > 0
  /\ startReq' = startReq - 1
  /\ isLoading' = FALSE
  /\ UNCHANGED << closedBy, blackboardEvents, pageVars, chatVars >>
  /\ last' = Ev("startFailed", NoArg)
  /\ UNCHANGED << mounted, isProcessRunning, isWaitingForInput,
                  userInputRequiredByBackend, waitingStepName, userFeedback,
                  statusPoller, justResumed, showApproveReject, pollTimers,
                  polls, killReq, loadingShown, deathLive, deathReq, resumeReq,
                  resumeSleep, resumeTimer >>

\* ------------------------------------------------------------ killProcess
LiveDeathTimers == Cardinality({s \in DeathSlots : deathLive[s]})

\* a slot whose earlier deathPoller is cleared and has nothing outstanding
FreeSlot(s) == ~deathLive[s] /\ deathReq[s] = 0

\* Cancel button (v-if="isProcessRunning"), the confirmation dialog's OK, and
\* killProcess up to its await: overlay shown, stopPolling(), request sent
killProcess ==
  /\ PageFree
  /\ isProcessRunning
  /\ killReq + LiveDeathTimers < MaxDeathTimers
  /\ loadingShown' = TRUE
  /\ statusPoller' = FALSE
  /\ pollTimers' = TimersAfterStop
  /\ killReq' = killReq + 1
  /\ UNCHANGED << closedBy, blackboardEvents, pageVars, chatVars >>
  /\ last' = Ev("killProcess", NoArg)
  /\ UNCHANGED << mounted, isLoading, isProcessRunning, isWaitingForInput,
                  userInputRequiredByBackend, waitingStepName, userFeedback,
                  justResumed, showApproveReject, polls, startReq, deathLive,
                  deathReq, resumeReq, resumeSleep, resumeTimer >>

\* the cancellation signal was acknowledged: deathPoller = setInterval(..., 2000)
killAcked(s) ==
  /\ killReq > 0
  /\ FreeSlot(s)
  /\ killReq' = killReq - 1
  /\ deathLive' = [deathLive EXCEPT ![s] = TRUE]
  /\ UNCHANGED << closedBy, blackboardEvents, pageVars, chatVars >>
  /\ last' = Ev("other", NoArg)
  /\ UNCHANGED << mounted, isLoading, isProcessRunning, isWaitingForInput,
                  userInputRequiredByBackend, waitingStepName, userFeedback,
                  statusPoller, justResumed, showApproveReject, pollTimers,
                  polls, startReq, loadingShown, deathReq, resumeReq,
                  resumeSleep, resumeTimer >>

\* the cancellation signal failed: overlay hidden, this.startPolling()
killFailed ==
  /\ killReq > 0
  /\ PollsInFlight < MaxPolls
  /\ killReq' = killReq - 1
  /\ loadingShown' = FALSE
  /\ statusPoller' = TRUE
  /\ pollTimers' = TimersAfterStart
  /\ isLoading' = TRUE
  /\ polls' = IssuePolls(1)
  /\ UNCHANGED << closedBy, blackboardEvents, pageVars, chatVars >>
  /\ last' = Ev("killFailed",
                [wasRunning |-> isProcessRunning, live |-> LiveDeathTimers])
  /\ UNCHANGED << mounted, isProcessRunning, isWaitingForInput,
                  userInputRequiredByBackend, waitingStepName, userFeedback,
                  justResumed, showApproveReject, startReq, deathLive, deathReq,
                  resumeReq, resumeSleep, resumeTimer >>

\* the 2000 ms interval of slot s fires: this.$api.getStatus() is sent, with
\* fewer than limit requests outstanding
deathTickWithin(s, limit) ==
  /\ deathLive[s]
  /\ DeathReqsInFlight < limit
  /\ deathReq' = [deathReq EXCEPT ![s] = @ + 1]
  /\ UNCHANGED << closedBy, blackboardEvents, pageVars, chatVars >>
  /\ last' = Ev("deathTick", [slot |-> s])
  /\ UNCHANGED << mounted, isLoading, isProcessRunning, isWaitingForInput,
                  userInputRequiredByBackend, waitingStepName, userFeedback,
                  statusPoller, justResumed, showApproveReject, pollTimers,
                  polls, startReq, killReq, loadingShown, deathLive,
                  resumeReq, resumeSleep, resumeTimer >>

\* the interval fires after the earlier request was answered
deathTick(s) == deathTickWithin(s, MaxDeathReqs)

\* the interval fires while earlier requests may still be unanswered
slowDeathTick(s) == deathTickWithin(s, MaxSlowDeathReqs)

\* the test inverted: if (data.is_running)
DeathConfirmed_inverted(running) == running

\* if (!data.is_running)
DeathConfirmed(running) == ~running

\* a getStatus of slot s's deathPoller resolved with is_running = running
deathResponse(s, running) ==
  /\ deathReq[s] > 0
  /\ deathReq' = [deathReq EXCEPT ![s] = @ - 1]
  /\ IF DeathConfirmed(running)
     THEN /\ deathLive' = [deathLive EXCEPT ![s] = FALSE]
          /\ loadingShown' = FALSE
          /\ isProcessRunning' = FALSE
          /\ isLoading' = FALSE
     ELSE UNCHANGED << deathLive, loadingShown, isProcessRunning, isLoading >>
  /\ UNCHANGED << closedBy, blackboardEvents, pageVars, chatVars >>
  /\ last' = Ev("deathResponse",
                [slot |-> s, running |-> running, live |-> deathLive[s],
                 afterConfirmed |-> /\ last.op = "deathResponse"
                                    /\ last.arg.slot = s
                                    /\ DeathConfirmed(last.arg.running)])
  /\ UNCHANGED << mounted, isWaitingForInput, userInputRequiredByBackend,
                  waitingStepName, userFeedback, statusPoller, justResumed,
                  showApproveReject, pollTimers, polls, startReq, killReq,
                  resumeReq, resumeSleep, resumeTimer >>

\* the interval left running after a failed check: it would ask again
ClearedOnFailure_retry(s) == deathLive

\* catch: clearInterval(deathPoller)
ClearedOnFailure(s) == [deathLive EXCEPT ![s] = FALSE]

\* a getStatus of slot s's deathPoller failed: the inner catch block
deathFailed(s) ==
  /\ deathReq[s] > 0
  /\ deathReq' = [deathReq EXCEPT ![s] = @ - 1]
  /\ deathLive' = ClearedOnFailure(s)
  /\ loadingShown' = FALSE
  /\ isProcessRunning' = FALSE
  /\ isLoading' = FALSE
  /\ UNCHANGED << closedBy, blackboardEvents, pageVars, chatVars >>
  /\ last' = Ev("deathFailed", [slot |-> s, live |-> deathLive[s]])
  /\ UNCHANGED << mounted, isWaitingForInput, userInputRequiredByBackend,
                  waitingStepName, userFeedback, statusPoller, justResumed,
                  showApproveReject, pollTimers, polls, startReq, killReq,
                  resumeReq, resumeSleep, resumeTimer >>

\* --------------------------------------------------------- submitFeedback
NoFeedback == "No feedback provided"

\* the typed text passed on as it is, the empty text included
FeedbackOrDefault_raw(text) == text

\* handleResume / handleReject: this.userFeedback || 'No feedback provided'
FeedbackOrDefault(text) == IF text = "" THEN NoFeedback ELSE text

\* submitFeedback(feedback) up to its await
submitFeedback(op, feedback) ==
  /\ OverlayFree
  /\ isWaitingForInput
  /\ ResumesActive < MaxResume
  /\ isLoading' = TRUE
  /\ justResumed' = TRUE
  /\ resumeReq' = resumeReq + 1
  /\ UNCHANGED << closedBy, blackboardEvents, pageVars, chatVars >>
  /\ last' = Ev(op, [feedback |-> feedback, cooling |-> justResumed])
  /\ UNCHANGED << mounted, isProcessRunning, isWaitingForInput,
                  userInputRequiredByBackend, waitingStepName, userFeedback,
                  statusPoller, showApproveReject, pollTimers, polls, startReq,
                  killReq, loadingShown, deathLive, deathReq, resumeSleep,
                  resumeTimer >>

\* Resume button: v-else of showApproveReject
handleResume ==
  ~showApproveReject /\ submitFeedback("handleResume", FeedbackOrDefault(userFeedback))

\* Approve button: v-if="showApproveReject"
handleApprove ==
  showApproveReject /\ submitFeedback("handleApprove", "approve")

\* Improve button: v-if="showApproveReject"
handleReject ==
  showApproveReject /\ submitFeedback("handleReject", FeedbackOrDefault(userFeedback))

\* resumeFlow resolved: the dialog is closed and the 1000 ms delay awaited
resumeAcked ==
  /\ resumeReq > 0
  /\ resumeReq' = resumeReq - 1
  /\ resumeSleep' = resumeSleep + 1
  /\ isWaitingForInput' = FALSE
  /\ userFeedback' = ""
  /\ showApproveReject' = FALSE
  /\ closedBy' = IF userInputRequiredByBackend THEN "resume" ELSE "none"
  /\ UNCHANGED << blackboardEvents, pageVars, chatVars >>
  /\ last' = Ev("resumeAcked", NoArg)
  /\ UNCHANGED << mounted, isLoading, isProcessRunning,
                  userInputRequiredByBackend, waitingStepName, statusPoller,
                  justResumed, pollTimers, polls, startReq, killReq,
                  loadingShown, deathLive, deathReq, resumeTimer >>

\* the 1000 ms delay elapsed: the 2000 ms reset timer is set, then finally
resumeDelayed ==
  /\ resumeSleep > 0
  /\ resumeSleep' = resumeSleep - 1
  /\ resumeTimer' = resumeTimer + 1
  /\ isLoading' = FALSE
  /\ UNCHANGED << closedBy, blackboardEvents, pageVars, chatVars >>
  /\ last' = Ev("timer", NoArg)
  /\ UNCHANGED << mounted, isProcessRunning, isWaitingForInput,
                  userInputRequiredByBackend, waitingStepName, userFeedback,
                  statusPoller, justResumed, showApproveReject, pollTimers,
                  polls, startReq, killReq, loadingShown, deathLive, deathReq,
                  resumeReq >>

\* setTimeout(() => { this.justResumed = false }, 2000) fires
cooldownElapsed ==
  /\ resumeTimer > 0
  /\ resumeTimer' = resumeTimer - 1
  /\ justResumed' = FALSE
  /\ UNCHANGED << closedBy, blackboardEvents, pageVars, chatVars >>
  /\ last' = Ev("timer", NoArg)
  /\ UNCHANGED << mounted, isLoading, isProcessRunning, isWaitingForInput,
                  userInputRequiredByBackend, waitingStepName, userFeedback,
                  statusPoller, showApproveReject, pollTimers, polls, startReq,
                  killReq, loadingShown, deathLive, deathReq, resumeReq,
                  resumeSleep >>

\* resumeFlow was rejected: the catch block, then finally
resumeFailed ==
  /\ resumeReq > 0
  /\ resumeReq' = resumeReq - 1
  /\ isLoading' = FALSE
  /\ UNCHANGED << closedBy, blackboardEvents, pageVars, chatVars >>
  /\ last' = Ev("resumeFailed", NoArg)
  /\ UNCHANGED << mounted, isProcessRunning, isWaitingForInput,
                  userInputRequiredByBackend, waitingStepName, userFeedback,
                  statusPoller, justResumed, showApproveReject, pollTimers,
                  polls, startReq, killReq, loadingShown, deathLive, deathReq,
                  resumeSleep, resumeTimer >>

\* ------------------------------------------------------------ specification
Next ==
  \/ created
  \/ Tick
  \/ Watchdog
  \/ \E r \in StatusResponses : checkStatus(r)
  \/ checkStatusFailed
  \/ ProvideInput
  \/ DismissDialog
  \/ \E text \in FeedbackTexts : TypeFeedback(text)
  \/ startDevopsFlow
  \/ startAcked
  \/ startFailed
  \/ killProcess
  \/ \E s \in DeathSlots : killAcked(s)
  \/ killFailed
  \/ \E s \in DeathSlots : deathTick(s)
  \/ \E s \in DeathSlots, running \in BOOLEAN : deathResponse(s, running)
  \/ \E s \in DeathSlots : deathFailed(s)
  \/ handleResume
  \/ handleApprove
  \/ handleReject
  \/ resumeAcked
  \/ resumeDelayed
  \/ cooldownElapsed
  \/ resumeFailed

Spec == Init /\ [][Next]_vars

\* -------------------------------------------------------------- properties
\* a checkpoint is open for a flow the controller takes to be running
CheckpointOpen ==
  isWaitingForInput /\ userInputRequiredByBackend /\ isProcessRunning

\* a cancellation is under way: signal outstanding or a deathPoller live
Cancelling == killReq > 0 \/ LiveDeathTimers > 0

\* C1: an open checkpoint implies a running flow: neither isWaitingForInput
\* nor userInputRequiredByBackend is ever true while isProcessRunning is false.
C1_CheckpointOnlyWhileRunning ==
  (isWaitingForInput \/ userInputRequiredByBackend) => isProcessRunning

\* C2: at most one normal status poll (checkStatus) is outstanding at any time.
C2_AtMostOnePollInFlight == PollsInFlight <= 1

\* C3: while a checkpoint is open the normal scheduler stays deactivated:
\* statusPoller is null and no normal poll request is issued.
C3_NoPollingWhileCheckpointOpen ==
  /\ [](CheckpointOpen => ~statusPoller)
  /\ [][(CheckpointOpen /\ CheckpointOpen') => PollsInFlight' <= PollsInFlight]_vars

\* C4: from killProcess until the stop is confirmed or the signal is reported
\* failed, statusPoller stays null and no normal poll request is issued.
C4_NoPollingWhileCancelling ==
  /\ [](Cancelling => ~statusPoller)
  /\ [][(Cancelling /\ Cancelling') => PollsInFlight' <= PollsInFlight]_vars

\* C5: once a status response of a live deathPoller with is_running = false
\* has been handled, isProcessRunning is false and that poller's interval is
\* cleared; and a cancellation status request is only ever sent by an
\* interval that is live, so none is sent after the confirmation.
C5_ConfirmedDeathStopsLoop ==
  /\ (last.op = "deathResponse" /\ ~last.arg.running /\ last.arg.live)
       => (~isProcessRunning /\ ~deathLive[last.arg.slot])
  /\ (last.op = "deathTick") => deathLive[last.arg.slot]

\* C5 witness: the confirming response has just been handled
C5_Witness ==
  /\ last.op = "deathResponse"
  /\ ~last.arg.running
  /\ last.arg.live
  /\ ~isProcessRunning
  /\ LiveDeathTimers = 0
  /\ DeathReqsInFlight = 0

\* C6: once a normal poll has reported is_running = false while
\* isProcessRunning was true, the scheduler is stopped and no checkpoint is
\* left or opened, whatever the same response says about is_waiting_for_input.
C6_FinishedWins ==
  (last.op = "checkStatus" /\ last.arg.wasRunning /\ ~last.arg.running)
    => /\ ~statusPoller
       /\ pollTimers = 0
       /\ ~isWaitingForInput
       /\ ~userInputRequiredByBackend
       /\ ~showApproveReject

\* C6 witness: the finishing response also carried is_waiting_for_input
C6_Witness ==
  /\ last.op = "checkStatus"
  /\ last.arg.wasRunning /\ ~last.arg.running
  /\ last.arg.waiting
  /\ waitingStepName = S_initial_research
  /\ ~isWaitingForInput

\* C7: a successful poll with is_running and is_waiting_for_input, arriving
\* while the dialog is not open (and was not hidden by the user) and outside
\* the cool-down, opens a checkpoint for the reported step name: also the
\* first such poll after an acknowledged resume closed the previous one.
C7_WaitingPollOpensCheckpoint ==
  [][\A r \in StatusResponses :
       (/\ checkStatus(r)
        /\ r.running /\ r.waiting
        /\ ~isWaitingForInput /\ ~justResumed
        /\ closedBy # "user")
         => (isWaitingForInput' /\ waitingStepName' = StepOrUnknown(r.step))]_vars

\* the 5000 ms watchdog keeps firing, and every outstanding poll is answered
\* or times out (the gateway's request timeout)
FairSpec ==
  /\ Spec
  /\ WF_vars(Watchdog)
  /\ WF_vars(\E r \in StatusResponses : checkStatus(r))

\* C8: when a resume is acknowledged the dialog is closed and the controller
\* is in the cool-down window, and from then on normal polling becomes active
\* again unless the flow is no longer taken to be running.
C8_AckedResumeCoolsDownAndRepolls ==
  /\ [][resumeAcked => (~isWaitingForInput' /\ justResumed')]_vars
  /\ (last.op = "resumeAcked") ~> (statusPoller \/ ~isProcessRunning)

HandleOps == {"handleResume", "handleApprove", "handleReject"}

\* C9: a resume whose request fails leaves the dialog open and the checkpoint
\* state, the typed feedback and justResumed as they were before the attempt,
\* and sends no further request.  Stated for a running flow and the failure
\* that directly follows the attempt.
C9_FailedResumeChangesNothing ==
  [][(last.op \in HandleOps /\ isProcessRunning /\ resumeFailed)
       => /\ isWaitingForInput'
          /\ UNCHANGED << userInputRequiredByBackend, waitingStepName,
                          showApproveReject, userFeedback >>
          /\ justResumed' = last.arg.cooling
          /\ resumeReq' < resumeReq]_vars

\* C10: a poll response that arrives directly after a cancellation was
\* confirmed (so the poll was issued before it) does not turn
\* isProcessRunning back to true, and one that arrives directly after a
\* resume was acknowledged does not open the dialog again.
C10_StalePollDiscarded ==
  [][(\E r \in StatusResponses : checkStatus(r))
       => /\ (last.op = "deathResponse" /\ ~last.arg.running /\ last.arg.live)
               => ~isProcessRunning'
          /\ (last.op = "resumeAcked") => ~isWaitingForInput']_vars

\* C11: a failed normal poll outside a cancellation keeps isProcessRunning
\* and the checkpoint state, and leaves the scheduler active.  Stated for a
\* flow that is taken to be running.
C11_FailedPollKeepsLifecycle ==
  [][(checkStatusFailed /\ ~Cancelling /\ isProcessRunning)
       => /\ UNCHANGED << isProcessRunning, isWaitingForInput,
                          userInputRequiredByBackend >>
          /\ (statusPoller => statusPoller' /\ pollTimers' = pollTimers)]_vars

\* C12: once a status check of a live deathPoller has failed outright, that
\* poller's interval is cleared and isProcessRunning is false; a cancellation
\* status request is only sent by a live interval, so the failed check is
\* not retried.
C12_FailedDeathCheckEndsWorkflow ==
  /\ (last.op = "deathFailed" /\ last.arg.live)
       => (~isProcessRunning /\ ~deathLive[last.arg.slot] /\ ~loadingShown)
  /\ (last.op = "deathTick") => (deathLive[last.arg.slot] /\ DeathReqsInFlight > 0)

\* C12 witness: the failure of the workflow's check has just been handled
C12_Witness ==
  /\ last.op = "deathFailed"
  /\ last.arg.live
  /\ ~isProcessRunning
  /\ LiveDeathTimers = 0
  /\ DeathReqsInFlight = 0

\* C13: once a failed cancellation signal has been handled, no deathPoller
\* was started, isProcessRunning is what it was, and normal polling is
\* active with exactly one statusPoller interval and the overlay hidden.
C13_FailedKillResumesPolling ==
  (last.op = "killFailed")
    => /\ LiveDeathTimers = last.arg.live
       /\ isProcessRunning = last.arg.wasRunning
       /\ statusPoller
       /\ pollTimers = 1
       /\ PollsInFlight > 0
       /\ ~loadingShown

\* C13 witness: the signal of a running flow has just failed
C13_Witness ==
  /\ last.op = "killFailed"
  /\ last.arg.wasRunning
  /\ isProcessRunning
  /\ statusPoller
  /\ pollTimers = 1
  /\ killReq = 0
  /\ LiveDeathTimers = 0

\* C14: a start request that fails leaves the controller as it was before
\* startDevopsFlow was called: the mirrored events of the previous run,
\* isProcessRunning, the checkpoint state and the scheduler state, and no
\* request is sent again.  Stated for the failure that directly follows the
\* call.
C14_FailedStartKeepsPriorState ==
  [][(last.op = "startDevopsFlow" /\ startFailed)
       => /\ blackboardEvents' = last.arg.events
          /\ UNCHANGED << isProcessRunning, isWaitingForInput,
                          userInputRequiredByBackend, statusPoller, pollTimers >>
          /\ ~isLoading'
          /\ startReq' < startReq]_vars

\* C15: a start request is sent only when no flow is taken to be running:
\* not while isProcessRunning is true (a checkpoint included) and not while a
\* cancellation is under way.
C15_StartOnlyWhenIdle ==
  [][(startReq' > startReq) => (~isProcessRunning /\ ~Cancelling)]_vars

\* ------------------------------------------------- interaction-mode gate
\* pieces that step names are put together from
StepPieces ==
  { EmptyString, S_initial_research, S_per_resource_research,
    S_project_structure_review, S_image_retrieval_review, S_resource_,
    S_research_review, S_manual_fix_step, << "0" >> }

\* step_name values given to the gate: up to three pieces in a row
GateStepNames == { a \o b \o c : a \in StepPieces, b \in StepPieces, c \in StepPieces }

\* this.waitingStepName = statusData.step_name || 'Unknown step';
\* this.showApproveReject = this.shouldShowApproveReject(this.waitingStepName)
classifyStep(name) ==
  /\ waitingStepName' = StepOrUnknown(name)
  /\ showApproveReject' = shouldShowApproveReject(StepOrUnknown(name))
  /\ last' = Ev("classifyStep", [step |-> name])
  /\ UNCHANGED << mounted, isLoading, isProcessRunning, isWaitingForInput,
                  userInputRequiredByBackend, userFeedback, blackboardEvents,
                  statusPoller, justResumed, pollTimers, polls, startReq,
                  killReq, loadingShown, deathLive, deathReq, resumeReq,
                  resumeSleep, resumeTimer, closedBy, pageVars, chatVars >>

GateNext == \E name \in GateStepNames : classifyStep(name)

\* the gate on its own, applied to one reported step name after another
GateSpec == Init /\ [][GateNext]_vars

\* p occurs in s at position i
OccursAt(s, p, i) ==
  /\ i + Len(p) - 1 <= Len(s)
  /\ SubSeq(s, i, i + Len(p) - 1) = p

\* the name contains one of the four review-step names
NamesReviewStep(s) ==
  \E p \in { S_initial_research, S_per_resource_research,
             S_project_structure_review, S_image_retrieval_review } :
    \E i \in 1..Len(s) : OccursAt(s, p, i)

\* resource_*_research_review: "resource_" and, starting later in the name,
\* "_research_review"
MatchesResourceReview(s) ==
  \E i \in 1..Len(s), j \in 1..Len(s) :
    /\ i < j
    /\ OccursAt(s, S_resource_, i)
    /\ OccursAt(s, S_research_review, j)

\* C16: the gate offers Approve/Reject exactly for the step names that
\* contain one of the four review-step names or match
\* resource_*_research_review, and free-form Resume for every other name.
C16_GateClassification ==
  (last.op = "classifyStep")
    => (showApproveReject <=>
          (NamesReviewStep(waitingStepName) \/ MatchesResourceReview(waitingStepName)))

\* C17: whenever the dialog is open the offered mode is the one of the
\* current step: showApproveReject = shouldShowApproveReject(waitingStepName),
\* also after the dialog was re-opened with the "Provide Input" button.
C17_ModeMatchesStepWhileOpen ==
  (isWaitingForInput /\ isProcessRunning)
    => (showApproveReject <=> shouldShowApproveReject(waitingStepName))

\* C18: the feedback passed to resumeFlow is the literal "approve" for
\* Approve whatever was typed, and for Improve and for free-form Resume the
\* typed text, or "No feedback provided" when nothing was typed.
C18_FeedbackSent ==
  /\ (last.op = "handleApprove") => last.arg.feedback = "approve"
  /\ (last.op \in {"handleResume", "handleReject"})
       => last.arg.feedback =
            (IF userFeedback = "" THEN "No feedback provided" ELSE userFeedback)

\* C18 witness: Improve was clicked with nothing typed
C18_Witness ==
  /\ last.op = "handleReject"
  /\ userFeedback = ""
  /\ last.arg.feedback = "No feedback provided"
  /\ resumeReq > 0

\* Approve was clicked with a text typed
C18_ApproveWithText ==
  /\ last.op = "handleApprove"
  /\ userFeedback = "text"
  /\ last.arg.feedback = "approve"

\* ------------------------------------------------- mirrored blackboard
\* everything of the root component that the blackboard page leaves alone
ctlVars ==
  << mounted, isLoading, isProcessRunning, isWaitingForInput,
     userInputRequiredByBackend, waitingStepName, userFeedback, statusPoller,
     justResumed, showApproveReject, pollTimers, polls, startReq, killReq,
     loadingShown, deathLive, deathReq, resumeReq, resumeSleep, resumeTimer,
     closedBy >>

\* updateBlackboardDrawers(data): blackboardEvents afterwards
EventsAfterUpdate(data) ==
  IF data.events.shape \in {"wrapped", "array"} THEN data.events.list
  ELSE blackboardEvents

\* updateBlackboardDrawers(data): blackboardRecords afterwards
RecordsAfterUpdate(data) ==
  IF data.records.present THEN data.records.list ELSE blackboardRecords

\* BlackboardPage.fetchBlackboard up to its await (created, the 5000 ms
\* auto-refresh interval, or the refresh toggle)
fetchBlackboard ==
  /\ ~isRefreshing
  /\ isRefreshing' = TRUE
  /\ last' = Ev("fetchBlackboard", NoArg)
  /\ UNCHANGED << ctlVars, blackboardEvents, blackboardRecords, pageBlackboard,
                  chatVars >>

\* getBlackboard resolved with blackboard bb: the page keeps it and emits
\* update-drawers; with no blackboard in the response the handler throws
\* before it assigns anything
blackboardFetched(bb) ==
  /\ isRefreshing
  /\ isRefreshing' = FALSE
  /\ pageBlackboard' = bb
  /\ blackboardEvents' = IF bb.present THEN EventsAfterUpdate(bb) ELSE blackboardEvents
  /\ blackboardRecords' = IF bb.present THEN RecordsAfterUpdate(bb) ELSE blackboardRecords
  /\ last' = Ev("blackboardFetched", NoArg)
  /\ UNCHANGED << ctlVars, chatVars >>

\* getBlackboard failed: the catch block, then finally
fetchBlackboardFailed ==
  /\ isRefreshing
  /\ isRefreshing' = FALSE
  /\ last' = Ev("fetchBlackboardFailed", NoArg)
  /\ UNCHANGED << ctlVars, blackboardEvents, blackboardRecords, pageBlackboard,
                  chatVars >>

MirrorNext ==
  \/ fetchBlackboard
  \/ \E bb \in Blackboards : blackboardFetched(bb)
  \/ fetchBlackboardFailed

\* the blackboard page polling on its own
MirrorSpec == Init /\ [][MirrorNext]_vars

\* C19: after a successful blackboard poll the mirror holds the data of that
\* response and nothing of earlier ones: the page's blackboard is the
\* response's, and blackboardEvents and blackboardRecords are its events and
\* records, empty when the response has no such field.
C19_MirrorReplacedWholesale ==
  (last.op = "blackboardFetched" /\ pageBlackboard.present)
    => /\ blackboardEvents = pageBlackboard.events.list
       /\ blackboardRecords = pageBlackboard.records.list

\* ------------------------------------------------------------- ChatPopup
\* everything outside the ChatPopup component
nonChatVars == << ctlVars, blackboardEvents, pageVars >>

\* the keys of conversations.value, in order
KeyAt(convs, hp, i) == hp[convs[i]].id
HasKey(convs, hp, id) == \E i \in 1..Len(convs) : KeyAt(convs, hp, i) = id
IndexOfKey(convs, hp, id) == CHOOSE i \in 1..Len(convs) : KeyAt(convs, hp, i) = id

\* the conversations saved without their messages
Stringify_noMessages(convs, hp) ==
  [kind |-> "map",
   map |-> [i \in 1..Len(convs) |-> [id |-> hp[convs[i]].id, messages |-> << >>]]]

\* JSON.stringify(conversations.value)
Stringify(convs, hp) ==
  [kind |-> "map",
   map |-> [i \in 1..Len(convs) |->
              [id |-> hp[convs[i]].id, messages |-> hp[convs[i]].messages]]]

\* JSON.parse of a saved collection: one new object per entry
ParsedObjects(map) ==
  [o \in Objects |-> IF o <= Len(map) THEN map[o] ELSE NoObject]
ParsedKeys(map) == [i \in 1..Len(map) |-> i]

\* { ...conversations.value, [newId]: newConversation }: an existing key
\* keeps its place and gets the new object
WithNewConversation(newId) ==
  IF HasKey(conversations, heap, newId)
  THEN [conversations EXCEPT ![IndexOfKey(conversations, heap, newId)] = nextOid]
  ELSE Append(conversations, nextOid)

HeapWithNew(newId) ==
  [heap EXCEPT ![nextOid] = [id |-> newId, messages |-> << >>]]

\* the first element removed whatever the key
RemoveAt_first(seq, i) == Tail(seq)

\* seq without its i-th element
RemoveAt(seq, i) == SubSeq(seq, 1, i - 1) \o SubSeq(seq, i + 1, Len(seq))

\* JSON.parse(storedConversations) throws
ParseThrows(item) == item.kind = "corrupt"

\* onMounted: loadConversations(); text that does not parse makes JSON.parse
\* throw, which leaves conversations.value as it was; the text "null" is
\* truthy and parses to null
chatMount ==
  /\ ~chatMounted
  /\ chatMounted' = TRUE
  /\ IF stored.kind = "map"
     THEN /\ conversations' = ParsedKeys(stored.map)
          /\ heap' = ParsedObjects(stored.map)
          /\ nextOid' = Len(stored.map) + 1
     ELSE UNCHANGED << conversations, heap, nextOid >>
  /\ conversationsNull' = (stored.kind = "null")
  /\ last' = Ev("loadConversations", [threw |-> ParseThrows(stored)])
  /\ UNCHANGED << showChat, chatIsLoading, currentConversationId, chatReq,
                  stored, clock, nonChatVars >>

\* newChat() at time now: the state it leaves
newChatAt(now) ==
  /\ now >= clock
  /\ nextOid <= MaxObjects
  /\ clock' = now
  /\ conversations' = WithNewConversation(now)
  /\ conversationsNull' = FALSE
  /\ heap' = HeapWithNew(now)
  /\ nextOid' = nextOid + 1
  /\ currentConversationId' = now
  /\ stored' = Stringify(conversations', heap')

\* the "+" button
newChat(now) ==
  /\ chatMounted
  /\ showChat
  /\ newChatAt(now)
  /\ last' = Ev("newChat", NoArg)
  /\ UNCHANGED << chatMounted, showChat, chatIsLoading, chatReq, nonChatVars >>

\* Object.keys(conversations.value) throws when the chat is being opened
\* and the value is null
KeysThrows(opening) == opening /\ conversationsNull

\* the chat button in the header; an exception ends the handler after
\* showChat was assigned
toggleChat(now) ==
  /\ chatMounted
  /\ showChat' = ~showChat
  /\ IF ~showChat /\ ~conversationsNull /\ Len(conversations) = 0
     THEN newChatAt(now)
     ELSE /\ now = clock
          /\ UNCHANGED << clock, conversations, conversationsNull, heap, nextOid,
                          currentConversationId, stored >>
  /\ last' = Ev("toggleChat", [threw |-> KeysThrows(~showChat)])
  /\ UNCHANGED << chatMounted, chatIsLoading, chatReq, nonChatVars >>

\* a click on an entry of the conversation list
switchConversation(conversationId) ==
  /\ chatMounted
  /\ showChat
  /\ currentConversationId' =
       IF HasKey(conversations, heap, conversationId) THEN conversationId
       ELSE currentConversationId
  /\ last' = Ev("switchConversation", NoArg)
  /\ UNCHANGED << chatMounted, showChat, chatIsLoading, conversations,
                  conversationsNull, heap, nextOid, chatReq, stored, clock,
                  nonChatVars >>

\* the deleted conversation left current
CurrentAfterDelete_kept(updated, conversationId) == currentConversationId

\* if (currentConversationId.value === conversationId): the first remaining
\* key, or null
CurrentAfterDelete(updated, conversationId) ==
  IF currentConversationId = conversationId
  THEN IF Len(updated) > 0 THEN KeyAt(updated, heap, 1) ELSE 0
  ELSE currentConversationId

\* the delete button of an entry of the conversation list
deleteConversation(conversationId) ==
  /\ chatMounted
  /\ showChat
  /\ IF HasKey(conversations, heap, conversationId)
     THEN LET updated == RemoveAt(conversations,
                                  IndexOfKey(conversations, heap, conversationId))
          IN /\ conversations' = updated
             /\ currentConversationId' = CurrentAfterDelete(updated, conversationId)
             /\ stored' = Stringify(updated, heap)
     ELSE UNCHANGED << conversations, currentConversationId, stored >>
  /\ last' = Ev("deleteConversation",
                [id |-> conversationId,
                 wasCurrent |-> currentConversationId = conversationId,
                 before |-> conversations,
                 current |-> currentConversationId])
  /\ UNCHANGED << chatMounted, showChat, chatIsLoading, conversationsNull,
                  heap, nextOid, chatReq, clock, nonChatVars >>

\* texts in the chat input when send is triggered ("": blank after trim)
ChatInputs == {"", "hi"}

\* what the chatWithCrew call ends with: a response with data, a response
\* without, or a rejection
ChatReplies == {"answer", "nodata", "error"}

\* the early return without the isLoading test
SendAccepted_whileLoading(message) ==
  message # "" /\ currentConversationId # 0

\* if (!message || !currentConversationId.value || isLoading.value) return
SendAccepted(message) ==
  message # "" /\ currentConversationId # 0 /\ ~chatIsLoading

\* sendMessage up to its await; now is read only if newChat() is called
sendMessage(message, now) ==
  LET found == HasKey(conversations, heap, currentConversationId)
      obj == IF found
             THEN conversations[IndexOfKey(conversations, heap, currentConversationId)]
             ELSE nextOid
  IN
  /\ chatMounted
  /\ showChat
  /\ IF ~SendAccepted(message)
     THEN /\ now = clock
          /\ UNCHANGED << chatIsLoading, conversations, conversationsNull,
                          currentConversationId, heap, nextOid, chatReq, stored,
                          clock >>
     ELSE /\ IF found
             THEN /\ now = clock
                  /\ Len(heap[obj].messages) + 2 <= MaxMessages
                  /\ heap' = [heap EXCEPT ![obj].messages = Append(@, "user")]
                  /\ UNCHANGED << conversations, conversationsNull,
                                  currentConversationId, nextOid, clock >>
             ELSE /\ now >= clock
                  /\ nextOid <= MaxObjects
                  /\ clock' = now
                  /\ conversations' = WithNewConversation(now)
                  /\ conversationsNull' = FALSE
                  /\ heap' = [HeapWithNew(now) EXCEPT ![nextOid].messages = << "user" >>]
                  /\ nextOid' = nextOid + 1
                  /\ currentConversationId' = now
          /\ stored' = Stringify(conversations', heap')
          /\ chatIsLoading' = TRUE
          /\ chatReq' = Append(chatReq, obj)
  /\ last' = Ev("sendMessage", [accepted |-> SendAccepted(message),
                                 wasLoading |-> chatIsLoading,
                                 changed |-> heap' # heap \/ chatReq' # chatReq])
  /\ UNCHANGED << chatMounted, showChat, nonChatVars >>

\* the outstanding calls once the i-th sendMessage invocation has finished
WithoutCall(reqs, i) == SubSeq(reqs, 1, i - 1) \o SubSeq(reqs, i + 1, Len(reqs))

\* the conversation looked up again by currentConversationId on reply
ReplyTarget_current(i) ==
  IF HasKey(conversations, heap, currentConversationId)
  THEN conversations[IndexOfKey(conversations, heap, currentConversationId)]
  ELSE chatReq[i]

\* the local conversation of the i-th outstanding sendMessage invocation
ReplyTarget(i) == chatReq[i]

\* the chatWithCrew call ended: the reply is put on the conversation object
\* that sendMessage holds, then finally
chatReplied(i, reply) ==
  /\ i \in 1..Len(chatReq)
  /\ IF reply = "nodata"
     THEN UNCHANGED << heap, stored >>
     ELSE /\ heap' = [heap EXCEPT ![ReplyTarget(i)].messages = Append(@, reply)]
          /\ stored' = Stringify(conversations, heap')
  /\ chatIsLoading' = FALSE
  /\ chatReq' = WithoutCall(chatReq, i)
  /\ last' = Ev("chatReplied",
                [reply |-> reply, obj |-> chatReq[i],
                 before |-> [heap |-> heap, conversations |-> conversations,
                             current |-> currentConversationId,
                             stored |-> stored]])
  /\ UNCHANGED << chatMounted, showChat, conversations, conversationsNull,
                  currentConversationId, nextOid, clock, nonChatVars >>

Times == FirstNow..MaxClock

ChatNext ==
  \/ chatMount
  \/ \E now \in Times : toggleChat(now)
  \/ \E now \in Times : newChat(now)
  \/ \E id \in 1..MaxClock : switchConversation(id)
  \/ \E id \in 1..MaxClock : deleteConversation(id)
  \/ \E message \in ChatInputs, now \in Times : sendMessage(message, now)
  \/ \E i \in 1..Len(chatReq), reply \in ChatReplies : chatReplied(i, reply)

\* a page load with any of the kept items
ChatInit == \E item \in StoredItems : DataWith(item)

\* the ChatPopup component on its own
ChatSpec == ChatInit /\ [][ChatNext]_vars

\* the ids under which conversations.value holds a conversation
ConversationIds ==
  { KeyAt(conversations, heap, i) : i \in 1..Len(conversations) }

\* C20: currentConversationId is null or the id of a conversation present in
\* the conversations collection, after any sequence of newChat,
\* switchConversation, deleteConversation, sendMessage and loadConversations.
C20_CurrentConversationExists ==
  currentConversationId = 0 \/ currentConversationId \in ConversationIds

\* C20 witness: the current conversation was deleted while another one was
\* left, and the first remaining one is current
C20_Witness ==
  /\ last.op = "deleteConversation"
  /\ last.arg.wasCurrent
  /\ last.arg.id \notin ConversationIds
  /\ Len(conversations) > 0
  /\ currentConversationId = KeyAt(conversations, heap, 1)

\* the conversation object stored under key id
ObjectOfKey(convs, hp, id) == convs[IndexOfKey(convs, hp, id)]

\* C21: sending a non-blank message while currentConversationId is null (and
\* no request is outstanding) creates a conversation, makes it current and
\* appends the user message to it.
C21_SendWithoutSessionCreatesOne ==
  [][\A message \in ChatInputs, now \in Times :
       (/\ sendMessage(message, now)
        /\ message # ""
        /\ currentConversationId = 0
        /\ ~chatIsLoading)
         => /\ currentConversationId' # 0
            /\ HasKey(conversations', heap', currentConversationId')
            /\ heap'[ObjectOfKey(conversations', heap', currentConversationId')].messages
                 = << "user" >>]_vars

\* C22: deleteConversation(id) of an existing conversation removes that
\* conversation and no other; if it was current the first remaining key
\* becomes current, or null when none remain, otherwise the current id stays;
\* for an unknown id nothing changes.
C22_DeleteConversation ==
  (last.op = "deleteConversation")
    => LET before == last.arg.before
           known == \E i \in 1..Len(before) : heap[before[i]].id = last.arg.id
           kept(o) == heap[o].id # last.arg.id
       IN IF known
          THEN /\ conversations = SelectSeq(before, kept)
               /\ Len(conversations) = Len(before) - 1
               /\ currentConversationId =
                    (IF last.arg.current # last.arg.id THEN last.arg.current
                     ELSE IF conversations = << >> THEN 0
                     ELSE heap[Head(conversations)].id)
               /\ stored = Stringify(conversations, heap)
          ELSE /\ conversations = before
               /\ currentConversationId = last.arg.current

\* C22 witness: of two conversations the second, which was current, was
\* deleted and the first is current now
C22_Witness ==
  /\ last.op = "deleteConversation"
  /\ last.arg.wasCurrent
  /\ Len(last.arg.before) = 2
  /\ heap[last.arg.before[2]].id = last.arg.id
  /\ conversations = << last.arg.before[1] >>
  /\ currentConversationId = heap[last.arg.before[1]].id

\* C23: when the chat request of an accepted sendMessage completes, exactly
\* one assistant entry is put directly after the user message on the
\* conversation the message was sent in: the answer when the call resolved,
\* an error entry when it was rejected.
C23_EveryMessageGetsOneReply ==
  [][\A i \in 1..Len(chatReq), reply \in ChatReplies :
       chatReplied(i, reply)
         => LET before == heap[chatReq[i]].messages
                after == heap'[chatReq[i]].messages
            IN /\ before # << >>
               /\ before[Len(before)] = "user"
               /\ after = Append(before, IF reply = "error" THEN "error" ELSE "answer")]_vars

\* conversations.value as a list of its conversations, in key order
InMemory == [i \in 1..Len(conversations) |-> heap[conversations[i]]]

\* what loadConversations would make of the stored item
Reloaded ==
  [i \in 1..Len(stored.map) |-> ParsedObjects(stored.map)[ParsedKeys(stored.map)[i]]]

\* C24: once the component is mounted, the collection kept in storage is the
\* in-memory collection after every mutation (create, delete, user message,
\* answer or error appended), and loading it gives that collection again.
C24_StorageMirrorsMemory ==
  chatMounted =>
    /\ (conversations # << >>) => stored.kind = "map"
    /\ (stored.kind = "map") => (stored.map = InMemory /\ Reloaded = InMemory)

\* C24 witness: an error reply was appended and saved
C24_Witness ==
  /\ last.op = "chatReplied"
  /\ last.arg.reply = "error"
  /\ stored.kind = "map"
  /\ Len(stored.map) > 0
  /\ \E i \in 1..Len(stored.map) : stored.map[i].messages = << "user", "error" >>

\* C25: loading at startup with absent, unparseable or non-collection ("null")
\* storage raises no error and leaves an empty collection, and opening the
\* chat afterwards works as with no conversations: it raises no error and
\* creates the first conversation.
C25_LoadToleratesBadStorage ==
  /\ (last.op = "loadConversations" /\ stored.kind # "map")
       => (~last.arg.threw /\ ~conversationsNull /\ conversations = << >>)
  /\ (last.op = "toggleChat" /\ showChat)
       => (~last.arg.threw /\ conversations # << >>)

\* the flow is taken to be running, no checkpoint is open or pending, no
\* cancellation is under way, and the scheduler holds no timer
PollingLost ==
  /\ isProcessRunning
  /\ ~statusPoller
  /\ ~isWaitingForInput
  /\ ~userInputRequiredByBackend
  /\ ~Cancelling

\* C26: whenever the flow is running with no checkpoint open and no
\* cancellation in progress but statusPoller is null, the scheduler is
\* eventually restarted (or the situation ends otherwise): polling does not
\* stay stopped forever in the running state.
C26_WatchdogRestartsPolling == PollingLost ~> (statusPoller \/ ~PollingLost)

\* C26 witness: the watchdog has just restarted the scheduler of a running
\* flow with no checkpoint and no cancellation
C26_Witness ==
  /\ last.op = "watchdog"
  /\ isProcessRunning
  /\ statusPoller
  /\ pollTimers = 1
  /\ ~isWaitingForInput
  /\ ~userInputRequiredByBackend
  /\ ~Cancelling

\* the handlers that end with the scheduler stopped by stopPolling()
StoppingOps == {"killProcess", "checkStatusFailed"}

\* C27: a live normal polling interval exists exactly when statusPoller holds
\* its handle, so there is never more than one; and after stopPolling() has
\* run, whether or not the scheduler was already stopped, statusPoller is
\* null and no interval is left.
C27_StopPollingReleasesTimer ==
  /\ pollTimers = (IF statusPoller THEN 1 ELSE 0)
  /\ (last.op \in StoppingOps) => (~statusPoller /\ pollTimers = 0)

\* C27 witness: stopPolling() has run on a scheduler that was already stopped
C27_Witness ==
  /\ last.op = "checkStatusFailed"
  /\ ~last.arg.hadTimer
  /\ ~statusPoller
  /\ pollTimers = 0

\* C28: at most one chat request is in flight, and isLoading is true exactly
\* while it is, so it is false again once the request has completed; a
\* sendMessage made while isLoading is true is not accepted and changes
\* neither the messages nor the requests in flight.
C28_OneChatRequestInFlight ==
  /\ Len(chatReq) <= 1
  /\ chatIsLoading <=> (Len(chatReq) = 1)
  /\ (last.op = "sendMessage" /\ last.arg.wasLoading)
       => (~last.arg.accepted /\ ~last.arg.changed)
  /\ (last.op = "chatReplied") => (~chatIsLoading /\ chatReq = << >>)

\* C28 witness: a message was typed and sent while a request was in flight
C28_Witness ==
  /\ last.op = "sendMessage"
  /\ last.arg.wasLoading
  /\ ~last.arg.changed
  /\ chatIsLoading
  /\ Len(chatReq) = 1

\* the conversation object is one of those in the collection
InCollection(convs, obj) == \E i \in 1..Len(convs) : convs[i] = obj

\* C30: a reply, answer or error, changes no conversation other than the one
\* its message was sent in, and changes neither the in-memory collection nor
\* currentConversationId; when that conversation was deleted in the meantime
\* it is not put back, in memory or in storage.
C30_LateReplyStaysWithItsConversation ==
  (last.op = "chatReplied")
    => LET b == last.arg.before
           o == last.arg.obj
       IN /\ currentConversationId = b.current
          /\ conversations = b.conversations
          /\ \A x \in Objects \ {o} : heap[x] = b.heap[x]
          /\ ~InCollection(b.conversations, o)
               => (~InCollection(conversations, o) /\ stored = b.stored)

\* C30 witness: an answer or error arrived for a conversation that had been
\* deleted, while another conversation was current
C30_Witness ==
  /\ last.op = "chatReplied"
  /\ last.arg.reply # "nodata"
  /\ ~InCollection(last.arg.before.conversations, last.arg.obj)
  /\ heap[last.arg.obj].messages # last.arg.before.heap[last.arg.obj].messages
  /\ conversations # << >>
  /\ currentConversationId # 0

\* C30 witness of the other case: the reply arrived after the user had
\* switched to another conversation, and went to the one it was sent in
C30_WitnessSwitched ==
  /\ last.op = "chatReplied"
  /\ last.arg.reply # "nodata"
  /\ InCollection(conversations, last.arg.obj)
  /\ heap[last.arg.obj].id # currentConversationId
  /\ heap[last.arg.obj].messages # last.arg.before.heap[last.arg.obj].messages

\* the controller with a slow status endpoint and no checkpoint answered
CancelNext ==
  \/ created
  \/ Tick
  \/ Watchdog
  \/ \E r \in StatusResponses : checkStatus(r)
  \/ checkStatusFailed
  \/ startDevopsFlow
  \/ startAcked
  \/ startFailed
  \/ killProcess
  \/ \E s \in DeathSlots : killAcked(s)
  \/ killFailed
  \/ \E s \in DeathSlots : slowDeathTick(s)
  \/ \E s \in DeathSlots, running \in BOOLEAN : deathResponse(s, running)
  \/ \E s \in DeathSlots : deathFailed(s)

CancelSpec == Init /\ [][CancelNext]_vars

\* C29: of the responses to one deathPoller's status requests only one
\* performs the Stopped transition: a response that reports the flow stopped
\* never directly follows another such response of the same cancel.
C29_StoppedAppliedOnce ==
  ~(/\ last.op = "deathResponse"
    /\ DeathConfirmed(last.arg.running)
    /\ last.arg.afterConfirmed)
====
